---- MODULE Spec2Model ----
(***************************************************************************)
(* A model of the magiqan test runner (packages/runner/src/runner.ts):     *)
(* Runner.run / runFile / runClass / runClassTest, the hook executor       *)
(* _runHooks, the timeout race _runFunction, the instance cache            *)
(* _constructInstanceIfNeeded, and the verdict aggregation of classes and  *)
(* files.                                                                  *)
(*                                                                         *)
(* Execution follows the JavaScript event loop: one action is the code     *)
(* that runs between two suspension points (await); every function a       *)
(* batch invokes synchronously is invoked inside the same action.          *)
(***************************************************************************)
EXTENDS Integers, Sequences, FiniteSets, TLC

\* ------------------------------------------------------------------ bounds
MaxTests == 2        \* tests declared on the class under variation
MaxHooks == 2        \* beforeAll/afterAll hooks declared on that class
MaxCalls == 2        \* successive top-level calls on the one Runner
MaxCount == 2        \* lifetime counters saturate here ("two or more")
MaxAggTests == 2     \* test results fed to the verdict functions
MaxAggClasses == 3   \* class results fed to the file verdict

\* ------------------------------------------------------------- vocabulary
Ctors == {"A", "B", "C"}
Paths == {"f", "g"}
States == {"pending", "passed", "failed", "broken", "skipped"}
AllKinds == {"beforeAll", "afterAll"}
ErrKinds == {"Error", "string", "other"}
EventNames == {"runnerInit", "runFile", "fileParsed", "fileResult",
               "runClass", "classConstructor", "classResult",
               "classHook", "classHookResult", "classEachHook",
               "classEachHookResult", "classMethod", "classMethodResult"}

Range(s) == {s[i] : i \in DOMAIN s}
SeqsUpTo(S, n) == UNION {[1..k -> S] : k \in 0..n}
Cap(n) == IF n > MaxCount THEN MaxCount ELSE n

\* A TestResult as far as the runner reads it back: `hooks` is the optional
\* field of the result object (hooksDefined = FALSE is `undefined`).
TestResult(name, isHook, result, error, hooksDefined, hooks) ==
    [name |-> name, isHook |-> isHook, result |-> result, error |-> error,
     hooksDefined |-> hooksDefined, hooks |-> hooks]
HookResult(name, result) == TestResult(name, TRUE, result, "absent", FALSE, <<>>)

\* ------------------------------------------------- verdict aggregation
\* runClass, lines 173-188.  r.hooks?.some(...) is false for a result whose
\* hooks field is undefined.
isAnyHookFailed(beforeAllResults, results, afterAllResults) ==
    \/ \E i \in DOMAIN afterAllResults : afterAllResults[i].result = "failed"
    \/ \E i \in DOMAIN beforeAllResults : beforeAllResults[i].result = "failed"
    \/ \E i \in DOMAIN results :
        /\ results[i].hooksDefined
        /\ \E j \in DOMAIN results[i].hooks : results[i].hooks[j].result = "failed"
isAllTestsPassedExcludeSkipped(results) ==
    LET nonSkipped == SelectSeq(results, LAMBDA r : r.result # "skipped")
    IN  \A i \in DOMAIN nonSkipped : nonSkipped[i].result = "passed"
isAllTestsSkipped(results) == \A i \in DOMAIN results : results[i].result = "skipped"

\* The same with the hook check moved in front of the test check.
ClassVerdictHookFirst(beforeAllResults, results, afterAllResults) ==
    IF isAnyHookFailed(beforeAllResults, results, afterAllResults) THEN "broken"
    ELSE IF isAllTestsPassedExcludeSkipped(results) THEN "passed"
    ELSE IF isAllTestsSkipped(results) THEN "skipped"
    ELSE "broken"
\* (ClassVerdictSkippedFirst: the all-skipped check of a class that declares
\* tests comes first.)
ClassVerdictSkippedFirst(beforeAllResults, results, afterAllResults) ==
    IF results # <<>> /\ isAllTestsSkipped(results) THEN "skipped"
    ELSE IF isAllTestsPassedExcludeSkipped(results) THEN "passed"
    ELSE IF isAnyHookFailed(beforeAllResults, results, afterAllResults) THEN "broken"
    ELSE "broken"
ClassVerdict(beforeAllResults, results, afterAllResults) ==
    IF isAllTestsPassedExcludeSkipped(results) THEN "passed"
    ELSE IF isAnyHookFailed(beforeAllResults, results, afterAllResults) THEN "broken"
    ELSE IF isAllTestsSkipped(results) THEN "skipped"
    ELSE "broken"

\* runFile, lines 116-130, over the result states of the file's classes.
\* The same with results.every in place of results.some for failed.
FileVerdictEveryFailed(results) ==
    IF \A i \in DOMAIN results : results[i] = "failed" THEN "failed"
    ELSE IF \A i \in DOMAIN results : results[i] = "passed" THEN "passed"
    ELSE IF \E i \in DOMAIN results : results[i] = "broken" THEN "broken"
    ELSE IF \A i \in DOMAIN results : results[i] = "skipped" THEN "skipped"
    ELSE "broken"
FileVerdict(results) ==
    LET isEveryTestClassPassed == \A i \in DOMAIN results : results[i] = "passed"
        isEveryTestClassSkipped == \A i \in DOMAIN results : results[i] = "skipped"
        isSomeTestClassFailed == \E i \in DOMAIN results : results[i] = "failed"
        isSomeTestClassBroken == \E i \in DOMAIN results : results[i] = "broken"
    IN  IF isSomeTestClassFailed THEN "failed"
        ELSE IF isEveryTestClassPassed THEN "passed"
        ELSE IF isSomeTestClassBroken THEN "broken"
        ELSE IF isEveryTestClassSkipped THEN "skipped"
        ELSE "broken"

\* ------------------------------------------------------------ definitions
\* The registry's content (METADATA_CLASS_KEY): hooks and tests as the
\* decorators leave them.  Names are unique within a class.
HookDef(name, kind, skip) == [name |-> name, kind |-> kind, skip |-> skip]
TestDef(name, skip, hooks) == [name |-> name, skip |-> skip, hooks |-> hooks]
ClassTest(skip, hooks, tests) == [skip |-> skip, hooks |-> hooks, tests |-> tests]

\* The class under variation, "A": up to MaxHooks class-level hooks and up to
\* MaxTests tests; a test declares no each-hooks, a beforeEach and an
\* afterEach hook, or the same with the beforeEach hook skipped.
HookSeqs ==
    {[i \in DOMAIN s |-> HookDef("h" \o ToString(i), s[i][1], s[i][2])] :
        s \in SeqsUpTo(AllKinds \X BOOLEAN, MaxHooks)}
EachHookSeqs ==
    {<<>>,
     <<HookDef("be", "beforeEach", FALSE), HookDef("ae", "afterEach", FALSE)>>,
     <<HookDef("be", "beforeEach", TRUE), HookDef("ae", "afterEach", FALSE)>>}
TestSeqs ==
    {ts \in {[i \in DOMAIN s |-> TestDef(i, s[i][1], s[i][2])] :
                s \in SeqsUpTo(BOOLEAN \X EachHookSeqs, MaxTests)} :
        \* at most one test runs each-hooks
        Cardinality({i \in DOMAIN ts : ~ts[i].skip /\ ts[i].hooks # <<>>}) <= 1}
SimpleTestSeqs == {ts \in TestSeqs : Len(ts) <= 1 /\ \A i \in DOMAIN ts : ts[i].hooks = <<>>}
DefaultHooks == <<HookDef("h1", "beforeAll", FALSE)>>
DefaultTests == <<TestDef(1, FALSE, <<>>)>>
\* Every hook list with no test, one test or one skipped test; every test
\* list without class-level hooks; and a class declared with skip.
ClassDefs ==
    {ClassTest(FALSE, hs, ts) : hs \in HookSeqs, ts \in SimpleTestSeqs}
    \cup {ClassTest(FALSE, <<>>, ts) : ts \in TestSeqs}
    \cup {ClassTest(TRUE, DefaultHooks, DefaultTests)}
\* The classes a file exports, "B" and "C".
SmallClassDefs ==
    {ClassTest(sk, hs, DefaultTests) : sk \in BOOLEAN, hs \in {<<>>, DefaultHooks}}
TrivialClass == ClassTest(TRUE, <<>>, <<>>)
Registries ==
    {[c \in Ctors |-> IF c = "A" THEN a ELSE TrivialClass] : a \in ClassDefs}
    \cup {[c \in Ctors |-> IF c = "A" THEN TrivialClass ELSE IF c = "B" THEN b ELSE d] :
            b \in SmallClassDefs, d \in SmallClassDefs}

\* Sequences of MaxCalls calls are followed on these registries; on the
\* others, one call.
SeqRegistries ==
    {[c \in Ctors |-> IF c = "A" THEN ClassTest(FALSE, DefaultHooks, DefaultTests)
                      ELSE TrivialClass],
     [c \in Ctors |-> IF c = "A" THEN TrivialClass
                      ELSE IF c = "B" THEN ClassTest(FALSE, <<>>, DefaultTests)
                      ELSE ClassTest(FALSE, <<>>, <<>>)]}

\* What a module exports: "f" exports two testable classes in this order,
\* "g" exports nothing that carries a ClassDefinition.
Exports(path) == IF path = "f" THEN <<"B", "C">> ELSE <<>>

VARIABLES
    classMeta,      \* METADATA_CLASS_KEY of each ctor's prototype
    instanceMeta,   \* METADATA_INSTANCE_KEY of each ctor's prototype, 0 = none
    allPaths,       \* Runner._allPaths
    hasInitBefore,  \* Runner._hasInitBefore
    call,           \* the top-level call in progress or last made
    callsLeft,      \* top-level calls the caller will still make
    runPc,          \* position of run()
    fileRun,        \* position and FileResult of runFile, per path
    classRun,       \* position and ClassResult of runClass, per ctor
    hookRun,        \* the beforeAll/afterAll invocations of _runHooks, per ctor
    testRun,        \* position and TestResult of runClassTest, per ctor and test
    obs,            \* what the event bus and the invoked functions have seen
    aggIn,          \* input fed to the verdict functions
    aggOut          \* their output

vars == <<classMeta, instanceMeta, allPaths, hasInitBefore, call, callsLeft, runPc,
          fileRun, classRun, hookRun, testRun, obs, aggIn, aggOut>>
runVars == <<classMeta, instanceMeta, allPaths, hasInitBefore, call, callsLeft, runPc,
             fileRun, classRun, hookRun, testRun, obs>>

\* ------------------------------------------------- function invocations
\* One invocation through _runFunction: `race` is the state of the promise
\* _runFunction returns ("threw" when Reflect.apply threw before a promise
\* existed), `fn` is the invoked function itself, which keeps running after
\* the timer has won the race.
NoInv == [race |-> "none", fn |-> "idle"]
Invoke(throws) ==
    IF throws THEN [race |-> "threw", fn |-> "done"]
    ELSE [race |-> "pending", fn |-> "running"]

Resolved == [settle |-> "resolved", value |-> "none", timer |-> FALSE]
Rejected(e) == [settle |-> "rejected", value |-> e, timer |-> FALSE]
\* delay(Runner.timeout) of ./delay: the timer's side of the race rejects.
Delay == [settle |-> "rejected", value |-> "Error", timer |-> TRUE]
Outcomes == {Resolved} \cup {Rejected(e) : e \in ErrKinds} \cup {Delay}

isNativeError(error) == error \in {"Error", "unknownError"}
\* _runFunction, lines 325-333: the result the race is turned into.
\* (RunFunctionAlwaysPassed: the catch handler returns what then returns.)
RunFunctionAlwaysPassed(s) == [result |-> "passed", error |-> "absent"]
RunFunction(s) ==
    IF s.settle = "resolved" THEN [result |-> "passed", error |-> "absent"]
    ELSE IF isNativeError(s.value) \/ s.value = "string"
         THEN [result |-> "failed", error |-> s.value]
         ELSE [result |-> "failed", error |-> "unknownError"]
Settle(s) == [race |-> RunFunction(s).result,
              fn |-> IF s.timer THEN "running" ELSE "done"]
\* What the race handed to the handlers of lines 325-327: nothing when it
\* resolved, the rejection value (one of ErrKinds) when it rejected.
SettleKind(s) == IF s.settle = "resolved" THEN "none" ELSE s.value

\* ------------------------------------------------------------ observations
Emit(o, e) == [o EXCEPT !.emitted[e] = @ + 1,
                        !.first = IF @ = "none" THEN e ELSE @]
RECURSIVE EmitN(_, _, _)
EmitN(o, e, n) == IF n = 0 THEN o ELSE EmitN(Emit(o, e), e, n - 1)
\* What a listener of classMethodResult and classResult can tell about the
\* order of delivery: whether some test, or class, has delivered its result
\* while one declared before it was still in flight.
Finished(o, overtook) == [o EXCEPT !.outOfOrder = @ \/ overtook]
\* _init, lines 33-35, behind the guard every entry point wraps it in.
RunnerInit(o) ==
    IF hasInitBefore THEN o
    ELSE [Emit(o, "runnerInit") EXCEPT !.inits = Cap(@ + 1)]
\* _constructInstanceIfNeeded, lines 335-344: the instance it returns, and
\* what constructing it leaves behind.
InstanceOf(o, c) ==
    IF instanceMeta[c] # 0 THEN instanceMeta[c] ELSE Cap(o.constructed[c] + 1)
Construct(o, c) ==
    IF instanceMeta[c] # 0 THEN o
    ELSE Emit([o EXCEPT !.constructed[c] = Cap(@ + 1)], "classConstructor")
\* Reflect.apply(fn, this, args) on n functions with `this` = inst.
Apply(o, c, inst, n) ==
    IF n = 0 THEN o
    ELSE [o EXCEPT !.invoked[c] = @ + n, !.thisUsed[c] = @ \cup {inst}]

\* ----------------------------------------------------------- _runHooks
Indices(s) == [i \in 1..Len(s) |-> i]
HookFn(c, i) == <<c, "hook", i, 0>>
BodyFn(c, t) == <<c, "body", t, 0>>
EachFn(c, t, j) == <<c, "each", t, j>>

\* hooks.filter(h => h.kind === kind) split by h.skip, lines 304-306.
runnedHooks(c, kind) ==
    SelectSeq(Indices(classMeta[c].hooks),
              LAMBDA i : classMeta[c].hooks[i].kind = kind /\ ~classMeta[c].hooks[i].skip)
skippedHooks(c, kind) ==
    SelectSeq(Indices(classMeta[c].hooks),
              LAMBDA i : classMeta[c].hooks[i].kind = kind /\ classMeta[c].hooks[i].skip)
HookFns(c, kind) == {HookFn(c, i) : i \in Range(runnedHooks(c, kind))}

\* The synchronous part of _runHooks: every runnable hook is invoked.
HooksStart(hr, c, kind, thr) ==
    [i \in DOMAIN hr |->
        IF i \in Range(runnedHooks(c, kind)) THEN Invoke(HookFn(c, i) \in thr) ELSE hr[i]]
HooksStartObs(o, c, kind) ==
    LET n == Len(runnedHooks(c, kind))
    IN  Apply(EmitN(Construct(o, c), "classHook", n), c, InstanceOf(o, c), n)
\* What _runHooks resolves to: the skipped results, then the run results.
HooksResults(hr, c, kind) ==
    LET sk == skippedHooks(c, kind)
        rn == runnedHooks(c, kind)
    IN  [j \in DOMAIN sk |-> HookResult(classMeta[c].hooks[sk[j]].name, "skipped")]
        \o [j \in DOMAIN rn |-> HookResult(classMeta[c].hooks[rn[j]].name, hr[rn[j]].race)]
\* (HooksSettledAlways: the batch is not awaited.)
HooksSettledAlways(hr, c, kind) == TRUE
HooksSettled(hr, c, kind) ==
    \A i \in Range(runnedHooks(c, kind)) : hr[i].race \in {"passed", "failed"}
HooksThrew(hr, c, kind) ==
    \E i \in Range(runnedHooks(c, kind)) : hr[i].race = "threw"

\* -------------------------------------------------------- runClassTest
\* classTest.tests.find(t => t.name === method): 0 when there is none.
FindTest(c, method) ==
    LET found == {i \in DOMAIN classMeta[c].tests : classMeta[c].tests[i].name = method}
    IN  IF found = {} THEN 0 ELSE CHOOSE i \in found : \A k \in found : i <= k
isHaveHooks(test) == Len(test.hooks) # 0
EachOf(test, kind) ==
    SelectSeq(Indices(test.hooks), LAMBDA j : test.hooks[j].kind = kind)
definedEachHook(test, kind) ==
    SelectSeq(Indices(test.hooks),
              LAMBDA j : ~test.hooks[j].skip /\ test.hooks[j].kind = kind)
EachFns(c, t, kind) ==
    {EachFn(c, t, j) : j \in Range(definedEachHook(classMeta[c].tests[t], kind))}
\* The functions runClassTest invokes before its first suspension.
TestStartFns(c, t) ==
    LET test == classMeta[c].tests[t]
    IN  IF test.skip THEN {}
        ELSE IF isHaveHooks(test) THEN EachFns(c, t, "beforeEach")
        ELSE {BodyFn(c, t)}

\* The result object of lines 218-224: it has no hooks field.
NewResult(test) == TestResult(test.name, FALSE, "pending", "absent", FALSE, <<>>)
\* Lines 232-242.
\* (skippedResultNoHooks: the hooks array is left empty.)
skippedResultNoHooks(test) == TestResult(test.name, FALSE, "skipped", "absent", TRUE, <<>>)
skippedResult(test) ==
    LET be == EachOf(test, "beforeEach")
        ae == EachOf(test, "afterEach")
    IN  TestResult(test.name, FALSE, "skipped", "absent", TRUE,
            IF isHaveHooks(test)
            THEN [j \in DOMAIN be |-> HookResult(test.hooks[be[j]].name, "skipped")]
                 \o [j \in DOMAIN ae |-> HookResult(test.hooks[ae[j]].name, "skipped")]
            ELSE <<>>)
\* result.hooks?.push(...results)
PushHooks(res, results) ==
    IF res.hooksDefined THEN [res EXCEPT !.hooks = @ \o results] ELSE res
EachResults(tr, test, kind) ==
    LET rn == definedEachHook(test, kind)
    IN  [j \in DOMAIN rn |-> HookResult(test.hooks[rn[j]].name, tr.each[rn[j]].race)]
EachStart(tr, c, t, kind, thr) ==
    [j \in DOMAIN tr.each |->
        IF j \in Range(definedEachHook(classMeta[c].tests[t], kind))
        THEN Invoke(EachFn(c, t, j) \in thr) ELSE tr.each[j]]
\* (EachSettledAlways: the batch is not awaited.)
EachSettledAlways(tr, test, kind) == TRUE
EachSettled(tr, test, kind) ==
    \A j \in Range(definedEachHook(test, kind)) : tr.each[j].race \in {"passed", "failed"}
EachThrew(tr) == \E j \in DOMAIN tr.each : tr.each[j].race = "threw"

FreshTest(test) ==
    [pc |-> "idle", res |-> NewResult(test), body |-> NoInv,
     each |-> [j \in DOMAIN test.hooks |-> NoInv], instance |-> 0,
     settled |-> "none"]

\* runClassTest up to its first suspension (lines 208-262), for a declared
\* test: the activation it leaves, and what was observed.
TestStart(c, t, inst, thr) ==
    LET test == classMeta[c].tests[t]
        tr == [FreshTest(test) EXCEPT !.instance = inst]
    IN  IF test.skip
        THEN [tr EXCEPT !.pc = "returned", !.res = skippedResult(test)]
        ELSE IF isHaveHooks(test)
        THEN [tr EXCEPT !.pc = "beforeEach",
                        !.each = EachStart(tr, c, t, "beforeEach", thr)]
        ELSE [tr EXCEPT !.pc = IF BodyFn(c, t) \in thr THEN "rejected" ELSE "body",
                        !.body = Invoke(BodyFn(c, t) \in thr)]
TestStartObs(o, c, t) ==
    LET test == classMeta[c].tests[t]
        o0 == RunnerInit(o)
        inst == InstanceOf(o0, c)
        o1 == Emit(Construct(o0, c), "classMethod")
        n == Len(definedEachHook(test, "beforeEach"))
    IN  IF test.skip THEN Emit(o1, "classMethodResult")
        ELSE IF isHaveHooks(test)
        THEN Apply(EmitN(o1, "classEachHook", n), c, inst, n)
        ELSE Apply(o1, c, inst, 1)
\* The lookup failure of lines 215-217: nothing but _init and the instance
\* acquisition has happened.
TestLookupFailedObsEmitsFirst(o, c) == Emit(Construct(RunnerInit(o), c), "classMethod")
TestLookupFailedObs(o, c) == Construct(RunnerInit(o), c)

\* mergedTest.tests.map(async test => runClassTest(ctor, test.name)): every
\* test is started, in declaration order, before any of them continues.
RECURSIVE TestsStartObs(_, _, _)
TestsStartObs(o, c, k) ==
    IF k = 0 THEN o
    ELSE LET prev == TestsStartObs(o, c, k - 1)
             t == FindTest(c, classMeta[c].tests[k].name)
         IN  TestStartObs(prev, c, t)
TestsStart(o, c, thr) ==
    [k \in DOMAIN classMeta[c].tests |->
        LET t == FindTest(c, classMeta[c].tests[k].name)
        IN  TestStart(c, t, InstanceOf(TestsStartObs(o, c, k - 1), c), thr)]
TestsStartFns(c) == UNION {TestStartFns(c, t) : t \in DOMAIN classMeta[c].tests}

\* ------------------------------------------------------------- runClass
FreshClass == [pc |-> "idle", result |-> "pending", results |-> <<>>, instance |-> 0]
FreshHooks(c) == [i \in DOMAIN classMeta[c].hooks |-> NoInv]
FreshTests(c) == [t \in DOMAIN classMeta[c].tests |-> FreshTest(classMeta[c].tests[t])]
FreshFile == [pc |-> "idle", result |-> "pending", results |-> <<>>]
\* Lines 143-165: up to the suspension on the beforeAll hooks.
ClassStartObs(o, c) ==
    HooksStartObs(Emit(Construct(RunnerInit(o), c), "runClass"), c, "beforeAll")
ClassStart(c, inst) == [FreshClass EXCEPT !.pc = "beforeAll", !.instance = inst]
\* runFile, line 109: the result of a class declared with skip.
SkippedClass == [pc |-> "returned", result |-> "skipped", results |-> <<>>, instance |-> 0]

\* ---------------------------------------------------------------- state
NoCall == [kind |-> "none", path |-> "none", ctor |-> "none", method |-> 0,
           lookupFailed |-> FALSE]
FreshObs(o) ==
    [o EXCEPT !.emitted = [e \in EventNames |-> 0],
              !.invoked = [c \in Ctors |-> 0],
              !.thisUsed = [c \in Ctors |-> {}],
              !.outOfOrder = FALSE]
NoAgg == [kind |-> "none", before |-> <<>>, tests |-> <<>>, after |-> <<>>,
          classes |-> <<>>]

RunStart(registry, budget) ==
    /\ classMeta = registry
    /\ callsLeft = budget
    /\ instanceMeta = [c \in Ctors |-> 0]
    /\ allPaths = <<>>
    /\ hasInitBefore = FALSE
    /\ call = NoCall
    /\ runPc = "idle"
    /\ fileRun = [p \in Paths |-> FreshFile]
    /\ classRun = [c \in Ctors |-> FreshClass]
    /\ hookRun = [c \in Ctors |-> FreshHooks(c)]
    /\ testRun = [c \in Ctors |-> FreshTests(c)]
    /\ obs = [inits |-> 0, first |-> "none",
              constructed |-> [c \in Ctors |-> 0],
              emitted |-> [e \in EventNames |-> 0],
              invoked |-> [c \in Ctors |-> 0],
              thisUsed |-> [c \in Ctors |-> {}],
              outOfOrder |-> FALSE]
Init ==
    /\ \/ \E registry \in Registries : RunStart(registry, 1)
       \/ \E registry \in SeqRegistries : RunStart(registry, MaxCalls)
    /\ aggIn = NoAgg
    /\ aggOut = "none"

\* No promise of the last call is still unsettled.
Idle ==
    /\ runPc \in {"idle", "returned", "rejected"}
    /\ \A p \in Paths : fileRun[p].pc \in {"idle", "returned", "absent", "rejected"}
    /\ \A c \in Ctors :
        /\ classRun[c].pc \in {"idle", "returned", "rejected"}
        /\ \A i \in DOMAIN hookRun[c] : hookRun[c][i].race # "pending"
        /\ \A t \in DOMAIN testRun[c] :
            /\ testRun[c][t].pc \in {"idle", "returned", "rejected"}
            /\ testRun[c][t].body.race # "pending"
            /\ \A j \in DOMAIN testRun[c][t].each : testRun[c][t].each[j].race # "pending"
CanCall == Idle /\ callsLeft > 0
Fresh ==
    /\ runPc' = "idle"
    /\ fileRun' = [p \in Paths |-> FreshFile]
Static == UNCHANGED <<classMeta, instanceMeta, allPaths, hasInitBefore, aggIn, aggOut>>
Stepping == UNCHANGED <<classMeta, instanceMeta, allPaths, hasInitBefore, aggIn, aggOut,
                        call, callsLeft>>

\* ----------------------------------------------------- the environment
\* addFile, lines 45-47 and 56-58: the paths are registered before the first
\* call, "f" first, each once, in the registries that vary the exported
\* classes.
addFile(p) ==
    /\ Idle /\ call = NoCall
    /\ p \notin Range(allPaths)
    /\ p = "g" => "f" \in Range(allPaths)
    /\ classMeta["A"] = TrivialClass
    /\ allPaths' = Append(allPaths, p)
    /\ UNCHANGED <<classMeta, instanceMeta, hasInitBefore, call, callsLeft, runPc, fileRun,
                   classRun, hookRun, testRun, obs, aggIn, aggOut>>
\* defineInstance of the runtime package, called between two calls with the
\* instance the last classConstructor event carried.
defineInstance(c) ==
    /\ Idle /\ call # NoCall /\ callsLeft > 0
    /\ instanceMeta[c] = 0
    /\ obs.constructed[c] > 0
    /\ instanceMeta' = [instanceMeta EXCEPT ![c] = obs.constructed[c]]
    /\ UNCHANGED <<classMeta, allPaths, hasInitBefore, call, callsLeft, runPc, fileRun,
                   classRun, hookRun, testRun, obs, aggIn, aggOut>>

\* ------------------------------------------------------ top-level calls
runClass(c) ==
    /\ CanCall
    /\ \E thr \in SUBSET HookFns(c, "beforeAll") :
        LET o == FreshObs(obs)
        IN  /\ call' = [NoCall EXCEPT !.kind = "runClass", !.ctor = c]
            /\ classRun' = [d \in Ctors |->
                             IF d = c THEN ClassStart(c, InstanceOf(RunnerInit(o), c))
                             ELSE FreshClass]
            /\ hookRun' = [d \in Ctors |->
                             IF d = c THEN HooksStart(FreshHooks(c), c, "beforeAll", thr)
                             ELSE FreshHooks(d)]
            /\ obs' = ClassStartObs(o, c)
    /\ testRun' = [d \in Ctors |-> FreshTests(d)]
    /\ callsLeft' = callsLeft - 1
    /\ Fresh /\ Static

runClassTest(c, method) ==
    /\ CanCall
    /\ LET o == FreshObs(obs)
           t == FindTest(c, method)
       IN  IF t = 0
           THEN /\ call' = [NoCall EXCEPT !.kind = "runClassTest", !.ctor = c,
                                          !.method = method, !.lookupFailed = TRUE]
                /\ testRun' = [d \in Ctors |-> FreshTests(d)]
                /\ obs' = TestLookupFailedObs(o, c)
           ELSE \E thr \in SUBSET TestStartFns(c, t) :
                /\ call' = [NoCall EXCEPT !.kind = "runClassTest", !.ctor = c,
                                          !.method = method]
                /\ testRun' = [d \in Ctors |->
                                 IF d = c
                                 THEN [FreshTests(c) EXCEPT
                                         ![t] = TestStart(c, t, InstanceOf(RunnerInit(o), c), thr)]
                                 ELSE FreshTests(d)]
                /\ obs' = TestStartObs(o, c, t)
    /\ classRun' = [d \in Ctors |-> FreshClass]
    /\ hookRun' = [d \in Ctors |-> FreshHooks(d)]
    /\ callsLeft' = callsLeft - 1
    /\ Fresh /\ Static

runFile(p) ==
    /\ CanCall
    /\ call' = [NoCall EXCEPT !.kind = "runFile", !.path = p]
    /\ runPc' = "idle"
    /\ fileRun' = [q \in Paths |-> IF q = p THEN [FreshFile EXCEPT !.pc = "importing"]
                                   ELSE FreshFile]
    /\ classRun' = [d \in Ctors |-> FreshClass]
    /\ hookRun' = [d \in Ctors |-> FreshHooks(d)]
    /\ testRun' = [d \in Ctors |-> FreshTests(d)]
    /\ obs' = RunnerInit(FreshObs(obs))
    /\ callsLeft' = callsLeft - 1
    /\ Static

RECURSIVE RunnerInitN(_, _)
RunnerInitN(o, n) == IF n = 0 THEN o ELSE RunnerInitN(RunnerInit(o), n - 1)
\* run, lines 59-68: every registered path's runFile is started.
run ==
    /\ CanCall
    /\ call' = [NoCall EXCEPT !.kind = "run"]
    /\ runPc' = IF Len(allPaths) = 0 THEN "returned" ELSE "files"
    /\ fileRun' = [q \in Paths |-> IF q \in Range(allPaths)
                                   THEN [FreshFile EXCEPT !.pc = "importing"]
                                   ELSE FreshFile]
    /\ classRun' = [d \in Ctors |-> FreshClass]
    /\ hookRun' = [d \in Ctors |-> FreshHooks(d)]
    /\ testRun' = [d \in Ctors |-> FreshTests(d)]
    /\ obs' = RunnerInitN(RunnerInit(FreshObs(obs)), Len(allPaths))
    /\ callsLeft' = callsLeft - 1
    /\ Static

\* -------------------------------------------------- settling invocations
\* A test declared before t, started by the same runClass, has not returned;
\* a class exported before c by the same file has not.
TestOvertakes(c, t) ==
    \E u \in DOMAIN testRun[c] :
        u < t /\ testRun[c][u].pc \in {"beforeEach", "body", "afterEach"}
ClassOvertakes(c) ==
    \E p \in Paths : \E i, k \in DOMAIN Exports(p) :
        /\ Exports(p)[k] = c /\ i < k
        /\ classRun[Exports(p)[i]].pc \in {"beforeAll", "tests", "afterAll"}
\* A beforeAll/afterAll hook's race settles and the mapper of _runHooks
\* continues (lines 311-315).
HookSettles(c, i) ==
    /\ hookRun[c][i].race = "pending"
    /\ \E s \in Outcomes : hookRun' = [hookRun EXCEPT ![c][i] = Settle(s)]
    /\ obs' = Emit(obs, "classMethodResult")
    /\ UNCHANGED <<runPc, fileRun, classRun, testRun>>
    /\ Stepping

\* A beforeEach/afterEach hook's race settles (lines 254-257, 279-282).
EachSettles(c, t, j) ==
    /\ testRun[c][t].each[j].race = "pending"
    /\ \E s \in Outcomes : testRun' = [testRun EXCEPT ![c][t].each[j] = Settle(s)]
    /\ obs' = Emit(obs, "classEachHookResult")
    /\ UNCHANGED <<runPc, fileRun, classRun, hookRun>>
    /\ Stepping

\* Promise.all over the beforeEach hooks resolved: lines 259-262.
TestBeforeEachDone(c, t) ==
    LET tr == testRun[c][t]
        test == classMeta[c].tests[t]
    IN  /\ tr.pc = "beforeEach"
        /\ ~EachThrew(tr)
        /\ EachSettled(tr, test, "beforeEach")
        /\ \E throws \in BOOLEAN :
            testRun' = [testRun EXCEPT ![c][t] =
                [tr EXCEPT !.res = PushHooks(tr.res, EachResults(tr, test, "beforeEach")),
                           !.body = Invoke(throws),
                           !.pc = IF throws THEN "rejected" ELSE "body"]]
        /\ obs' = Apply(obs, c, tr.instance, 1)
        /\ UNCHANGED <<runPc, fileRun, classRun, hookRun>>
        /\ Stepping

\* Promise.all over a batch of each-hooks rejected: a mapper threw.
TestRejects(c, t) ==
    /\ testRun[c][t].pc \in {"beforeEach", "afterEach"}
    /\ EachThrew(testRun[c][t])
    /\ testRun' = [testRun EXCEPT ![c][t].pc = "rejected"]
    /\ UNCHANGED <<runPc, fileRun, classRun, hookRun, obs>>
    /\ Stepping

\* The test body's race settles: lines 262-285, and 287-298 when the test
\* declares no each-hooks.
BodyResultNotAssigned(res, s) == res
BodyResult(res, s) ==
    LET r == RunFunction(s)
    IN  [res EXCEPT !.result = r.result,
                    !.error = IF r.result = "failed" /\ isNativeError(r.error)
                              THEN "stack" ELSE "absent"]
BodySettles(c, t) ==
    LET tr == testRun[c][t]
        test == classMeta[c].tests[t]
        n == Len(definedEachHook(test, "afterEach"))
    IN  /\ tr.pc = "body"
        /\ tr.body.race = "pending"
        /\ \E s \in Outcomes :
            IF isHaveHooks(test)
            THEN \E thr \in SUBSET EachFns(c, t, "afterEach") :
                 /\ testRun' = [testRun EXCEPT ![c][t] =
                        [tr EXCEPT !.res = BodyResult(tr.res, s),
                                   !.body = Settle(s),
                                   !.settled = SettleKind(s),
                                   !.each = EachStart(tr, c, t, "afterEach", thr),
                                   !.pc = "afterEach"]]
                 /\ obs' = Apply(EmitN(obs, "classEachHook", n), c, tr.instance, n)
            ELSE /\ testRun' = [testRun EXCEPT ![c][t] =
                        [tr EXCEPT !.res = BodyResult(tr.res, s),
                                   !.body = Settle(s),
                                   !.settled = SettleKind(s),
                                   !.pc = "returned"]]
                 /\ obs' = Finished(Emit(obs, "classMethodResult"), TestOvertakes(c, t))
        /\ UNCHANGED <<runPc, fileRun, classRun, hookRun>>
        /\ Stepping

\* Promise.all over the afterEach hooks resolved: lines 284-298.  Reading
\* result.hooks!.some of a result without a hooks field is a TypeError.
TestAfterEachDone(c, t) ==
    LET tr == testRun[c][t]
        test == classMeta[c].tests[t]
        res == PushHooks(tr.res, EachResults(tr, test, "afterEach"))
        isSomeHookFailed == \E j \in DOMAIN res.hooks : res.hooks[j].result = "failed"
    IN  /\ tr.pc = "afterEach"
        /\ ~EachThrew(tr)
        /\ EachSettled(tr, test, "afterEach")
        /\ IF res.hooksDefined
           THEN /\ testRun' = [testRun EXCEPT ![c][t] =
                        [tr EXCEPT !.res = IF isSomeHookFailed
                                           THEN [res EXCEPT !.result = "broken"] ELSE res,
                                   !.pc = "returned"]]
                /\ obs' = Finished(Emit(obs, "classMethodResult"), TestOvertakes(c, t))
           ELSE /\ testRun' = [testRun EXCEPT ![c][t] =
                        [tr EXCEPT !.res = res, !.pc = "rejected"]]
                /\ obs' = obs
        /\ UNCHANGED <<runPc, fileRun, classRun, hookRun>>
        /\ Stepping

\* A function that lost the race to the timer completes later; nobody is
\* listening any more.
HookOrphanCompletes(c, i) ==
    /\ hookRun[c][i].fn = "running" /\ hookRun[c][i].race # "pending"
    /\ hookRun' = [hookRun EXCEPT ![c][i].fn = "done"]
    /\ UNCHANGED <<runPc, fileRun, classRun, testRun, obs>>
    /\ Stepping
BodyOrphanCompletes(c, t) ==
    /\ testRun[c][t].body.fn = "running" /\ testRun[c][t].body.race # "pending"
    /\ testRun' = [testRun EXCEPT ![c][t].body.fn = "done"]
    /\ UNCHANGED <<runPc, fileRun, classRun, hookRun, obs>>
    /\ Stepping
EachOrphanCompletes(c, t, j) ==
    /\ testRun[c][t].each[j].fn = "running" /\ testRun[c][t].each[j].race # "pending"
    /\ testRun' = [testRun EXCEPT ![c][t].each[j].fn = "done"]
    /\ UNCHANGED <<runPc, fileRun, classRun, hookRun, obs>>
    /\ Stepping

\* ---------------------------------------------------- runClass, continued
\* The beforeAll hooks are done: lines 166-168 start every test.
ClassTestsStart(c) ==
    /\ classRun[c].pc = "beforeAll"
    /\ ~HooksThrew(hookRun[c], c, "beforeAll")
    /\ HooksSettled(hookRun[c], c, "beforeAll")
    /\ \E thr \in SUBSET TestsStartFns(c) :
        testRun' = [testRun EXCEPT ![c] = TestsStart(obs, c, thr)]
    /\ obs' = TestsStartObs(obs, c, Len(classMeta[c].tests))
    /\ classRun' = [classRun EXCEPT ![c].pc = "tests"]
    /\ UNCHANGED <<runPc, fileRun, hookRun>>
    /\ Stepping

\* Every test has returned: line 169 starts the afterAll hooks.
ClassAfterAllStart(c) ==
    /\ classRun[c].pc = "tests"
    /\ \A t \in DOMAIN testRun[c] : testRun[c][t].pc = "returned"
    /\ \E thr \in SUBSET HookFns(c, "afterAll") :
        hookRun' = [hookRun EXCEPT ![c] = HooksStart(hookRun[c], c, "afterAll", thr)]
    /\ obs' = HooksStartObs(obs, c, "afterAll")
    /\ classRun' = [classRun EXCEPT ![c].pc = "afterAll"]
    /\ UNCHANGED <<runPc, fileRun, testRun>>
    /\ Stepping

\* Line 171: result.results.push(...[...beforeAllResults, ...results,
\* ...afterAllResults]).
\* (ClassResultsTestsFirst: the test results are pushed first.)
ClassResultsTestsFirst(beforeAllResults, results, afterAllResults) ==
    results \o beforeAllResults \o afterAllResults
ClassResults(beforeAllResults, results, afterAllResults) ==
    beforeAllResults \o results \o afterAllResults

\* The afterAll hooks are done: lines 170-190.
ClassFinish(c) ==
    LET beforeAllResults == HooksResults(hookRun[c], c, "beforeAll")
        results == [t \in DOMAIN testRun[c] |-> testRun[c][t].res]
        afterAllResults == HooksResults(hookRun[c], c, "afterAll")
    IN  /\ classRun[c].pc = "afterAll"
        /\ ~HooksThrew(hookRun[c], c, "afterAll")
        /\ HooksSettled(hookRun[c], c, "afterAll")
        /\ classRun' = [classRun EXCEPT
                ![c].pc = "returned",
                ![c].results = ClassResults(beforeAllResults, results, afterAllResults),
                ![c].result = ClassVerdict(beforeAllResults, results, afterAllResults)]
        /\ obs' = Finished(Emit(obs, "classResult"), ClassOvertakes(c))
        /\ UNCHANGED <<runPc, fileRun, hookRun, testRun>>
        /\ Stepping

\* One of the promises runClass awaits rejected; runClass catches nothing.
ClassRejects(c) ==
    /\ \/ classRun[c].pc = "beforeAll" /\ HooksThrew(hookRun[c], c, "beforeAll")
       \/ classRun[c].pc = "tests"
            /\ \E t \in DOMAIN testRun[c] : testRun[c][t].pc = "rejected"
       \/ classRun[c].pc = "afterAll" /\ HooksThrew(hookRun[c], c, "afterAll")
    /\ classRun' = [classRun EXCEPT ![c].pc = "rejected"]
    /\ UNCHANGED <<runPc, fileRun, hookRun, testRun, obs>>
    /\ Stepping

\* ----------------------------------------------------- runFile, continued
\* The module is imported: lines 76-96.
\* (FileImportedNoEvent: the same without the emit of line 80.)
FileImportedNoEvent(p) ==
    /\ fileRun[p].pc = "importing"
    /\ fileRun' = [fileRun EXCEPT ![p].pc = "filtering"]
    /\ UNCHANGED <<runPc, classRun, hookRun, testRun, obs>>
    /\ Stepping
FileImported(p) ==
    /\ fileRun[p].pc = "importing"
    /\ fileRun' = [fileRun EXCEPT ![p].pc = "filtering"]
    /\ obs' = Emit(obs, "runFile")
    /\ UNCHANGED <<runPc, classRun, hookRun, testRun>>
    /\ Stepping

RECURSIVE ClassesStartObs(_, _, _)
ClassesStartObs(o, classes, k) ==
    IF k = 0 THEN o
    ELSE LET prev == ClassesStartObs(o, classes, k - 1)
         IN  IF classMeta[classes[k]].skip THEN prev ELSE ClassStartObs(prev, classes[k])
\* The exports are filtered: lines 97-113 start every class found.
FileFiltered(p) ==
    LET findedTests == Exports(p)
        o == Emit(obs, "fileParsed")
        started == {c \in Range(findedTests) : ~classMeta[c].skip}
        at(c) == CHOOSE k \in DOMAIN findedTests : findedTests[k] = c
    IN  /\ fileRun[p].pc = "filtering"
        /\ IF Len(findedTests) = 0
           THEN /\ fileRun' = [fileRun EXCEPT ![p].pc = "absent"]
                /\ UNCHANGED <<classRun, hookRun, obs>>
           ELSE /\ fileRun' = [fileRun EXCEPT ![p].pc = "classes"]
                /\ \E thr \in SUBSET UNION {HookFns(c, "beforeAll") : c \in started} :
                    hookRun' = [c \in Ctors |->
                        IF c \in started
                        THEN HooksStart(hookRun[c], c, "beforeAll", thr) ELSE hookRun[c]]
                /\ classRun' = [c \in Ctors |->
                        IF c \in started
                        THEN ClassStart(c, InstanceOf(ClassesStartObs(o, findedTests, at(c) - 1), c))
                        ELSE IF c \in Range(findedTests) THEN SkippedClass
                        ELSE classRun[c]]
                /\ obs' = ClassesStartObs(o, findedTests, Len(findedTests))
        /\ UNCHANGED <<runPc, testRun>>
        /\ Stepping

\* Every class has a result: lines 115-132.
FileFinish(p) ==
    LET classes == Exports(p)
        results == [k \in DOMAIN classes |->
                      [ctor |-> classes[k], result |-> classRun[classes[k]].result,
                       results |-> classRun[classes[k]].results]]
    IN  /\ fileRun[p].pc = "classes"
        /\ \A c \in Range(classes) : classRun[c].pc = "returned"
        /\ fileRun' = [fileRun EXCEPT
                ![p].pc = "returned",
                ![p].results = results,
                ![p].result = FileVerdict([k \in DOMAIN results |-> results[k].result])]
        /\ obs' = Emit(obs, "fileResult")
        /\ UNCHANGED <<runPc, classRun, hookRun, testRun>>
        /\ Stepping

FileRejects(p) ==
    /\ fileRun[p].pc = "classes"
    /\ \E c \in Range(Exports(p)) : classRun[c].pc = "rejected"
    /\ fileRun' = [fileRun EXCEPT ![p].pc = "rejected"]
    /\ UNCHANGED <<runPc, classRun, hookRun, testRun, obs>>
    /\ Stepping

\* --------------------------------------------------------- run, continued
RunFinish ==
    /\ runPc = "files"
    /\ \A p \in Range(allPaths) : fileRun[p].pc \in {"returned", "absent"}
    /\ runPc' = "returned"
    /\ UNCHANGED <<fileRun, classRun, hookRun, testRun, obs>>
    /\ Stepping
RunRejects ==
    /\ runPc = "files"
    /\ \E p \in Range(allPaths) : fileRun[p].pc = "rejected"
    /\ runPc' = "rejected"
    /\ UNCHANGED <<fileRun, classRun, hookRun, testRun, obs>>
    /\ Stepping

\* ------------------------------------------------------------------ Spec
Methods == 1..(MaxTests + 1)
Next ==
    \/ \E p \in Paths : addFile(p)
    \/ \E c \in Ctors : defineInstance(c)
    \/ run
    \/ \E p \in Paths : runFile(p)
    \/ \E c \in Ctors : runClass(c)
    \/ \E c \in Ctors, m \in Methods : runClassTest(c, m)
    \/ \E c \in Ctors, i \in 1..MaxHooks : i \in DOMAIN hookRun[c] /\ HookSettles(c, i)
    \/ \E c \in Ctors, i \in 1..MaxHooks : i \in DOMAIN hookRun[c] /\ HookOrphanCompletes(c, i)
    \/ \E c \in Ctors, t \in 1..MaxTests : t \in DOMAIN testRun[c] /\ TestBeforeEachDone(c, t)
    \/ \E c \in Ctors, t \in 1..MaxTests : t \in DOMAIN testRun[c] /\ TestRejects(c, t)
    \/ \E c \in Ctors, t \in 1..MaxTests : t \in DOMAIN testRun[c] /\ BodySettles(c, t)
    \/ \E c \in Ctors, t \in 1..MaxTests : t \in DOMAIN testRun[c] /\ TestAfterEachDone(c, t)
    \/ \E c \in Ctors, t \in 1..MaxTests : t \in DOMAIN testRun[c] /\ BodyOrphanCompletes(c, t)
    \/ \E c \in Ctors, t \in 1..MaxTests : t \in DOMAIN testRun[c] /\
          \E j \in DOMAIN testRun[c][t].each : EachSettles(c, t, j)
    \/ \E c \in Ctors, t \in 1..MaxTests : t \in DOMAIN testRun[c] /\
          \E j \in DOMAIN testRun[c][t].each : EachOrphanCompletes(c, t, j)
    \/ \E c \in Ctors : ClassTestsStart(c)
    \/ \E c \in Ctors : ClassAfterAllStart(c)
    \/ \E c \in Ctors : ClassFinish(c)
    \/ \E c \in Ctors : ClassRejects(c)
    \/ \E p \in Paths : FileImported(p)
    \/ \E p \in Paths : FileFiltered(p)
    \/ \E p \in Paths : FileFinish(p)
    \/ \E p \in Paths : FileRejects(p)
    \/ RunFinish
    \/ RunRejects
Spec == Init /\ [][Next]_vars

\* ------------------------------------------- the verdicts on their own
\* The two aggregations applied to every input within the bounds: hook
\* lists of at most one result, up to MaxAggTests test results, and one to
\* MaxAggClasses class results.
AggHookLists == {<<>>} \cup {<<HookResult("h", r)>> : r \in {"passed", "failed", "skipped"}}
AggTestResults ==
    {TestResult("t", FALSE, r, "absent", FALSE, <<>>) :
        r \in {"passed", "failed", "broken", "skipped"}}
    \cup {TestResult("t", FALSE, r, "absent", TRUE, hs) :
            r \in {"passed", "failed", "broken", "skipped"}, hs \in AggHookLists}
AggInputs ==
    {[NoAgg EXCEPT !.kind = "class", !.before = b, !.tests = ts, !.after = a] :
        b \in AggHookLists, ts \in SeqsUpTo(AggTestResults, MaxAggTests), a \in AggHookLists}
    \cup {[NoAgg EXCEPT !.kind = "file", !.classes = cs] :
            cs \in SeqsUpTo(States, MaxAggClasses) \ {<<>>}}
AggInit ==
    /\ RunStart([c \in Ctors |-> TrivialClass], 0)
    /\ aggIn \in AggInputs
    /\ aggOut = "none"
AggClass ==
    /\ aggIn.kind = "class" /\ aggOut = "none"
    /\ aggOut' = ClassVerdict(aggIn.before, aggIn.tests, aggIn.after)
    /\ UNCHANGED <<runVars, aggIn>>
AggFile ==
    /\ aggIn.kind = "file" /\ aggOut = "none"
    /\ aggOut' = FileVerdict(aggIn.classes)
    /\ UNCHANGED <<runVars, aggIn>>
AggNext == AggClass \/ AggFile
AggSpec == AggInit /\ [][AggNext]_vars

\* ================================================================ claims

\* C1: the verdict runClass assigns is the first match of: passed if every
\* non-skipped test result is passed; broken if any beforeAll, afterAll or
\* per-test each-hook result is failed; skipped if every test result is
\* skipped; broken otherwise.  It is never failed and never pending.
C1_ClassVerdictPrecedence ==
    (aggIn.kind = "class" /\ aggOut # "none") =>
        LET everyNonSkippedPassed ==
                \A i \in DOMAIN aggIn.tests :
                    aggIn.tests[i].result # "skipped" => aggIn.tests[i].result = "passed"
            anyHookFailed ==
                \/ \E i \in DOMAIN aggIn.before : aggIn.before[i].result = "failed"
                \/ \E i \in DOMAIN aggIn.after : aggIn.after[i].result = "failed"
                \/ \E i \in DOMAIN aggIn.tests : \E j \in DOMAIN aggIn.tests[i].hooks :
                        aggIn.tests[i].hooks[j].result = "failed"
            everySkipped == \A i \in DOMAIN aggIn.tests : aggIn.tests[i].result = "skipped"
        IN  /\ everyNonSkippedPassed => aggOut = "passed"
            /\ (~everyNonSkippedPassed /\ anyHookFailed) => aggOut = "broken"
            /\ (~everyNonSkippedPassed /\ ~anyHookFailed /\ everySkipped) => aggOut = "skipped"
            /\ (~everyNonSkippedPassed /\ ~anyHookFailed /\ ~everySkipped) => aggOut = "broken"
            /\ aggOut \notin {"failed", "pending"}
\* A failed beforeAll hook next to tests that all passed: rule 1 wins.
C1_Witness ==
    /\ aggIn.kind = "class" /\ aggOut = "passed"
    /\ aggIn.tests # <<>>
    /\ \A i \in DOMAIN aggIn.tests : aggIn.tests[i].result = "passed"
    /\ \E i \in DOMAIN aggIn.before : aggIn.before[i].result = "failed"

\* C3: the verdict runFile assigns to a non-empty sequence of class results
\* is the first match of: failed if any class is failed; passed if every
\* class is passed; broken if any class is broken; skipped if every class is
\* skipped; broken otherwise.
C3_FileVerdictPrecedence ==
    (aggIn.kind = "file" /\ aggOut # "none") =>
        LET cs == aggIn.classes
            any(r) == \E i \in DOMAIN cs : cs[i] = r
            all(r) == \A i \in DOMAIN cs : cs[i] = r
        IN  /\ any("failed") => aggOut = "failed"
            /\ (~any("failed") /\ all("passed")) => aggOut = "passed"
            /\ (~any("failed") /\ ~all("passed") /\ any("broken")) => aggOut = "broken"
            /\ (~any("failed") /\ ~all("passed") /\ ~any("broken") /\ all("skipped"))
                    => aggOut = "skipped"
            /\ (~any("failed") /\ ~all("passed") /\ ~any("broken") /\ ~all("skipped"))
                    => aggOut = "broken"
\* A failed class next to a broken one: rule 1 wins over rule 3.
C3_Witness ==
    /\ aggIn.kind = "file" /\ aggOut = "failed"
    /\ \E i \in DOMAIN aggIn.classes : aggIn.classes[i] = "broken"
    /\ \E i \in DOMAIN aggIn.classes : aggIn.classes[i] = "passed"

\* What the caller of the top-level call has got back.
CallStatus ==
    CASE call.kind = "run" -> runPc
      [] call.kind = "runFile" -> fileRun[call.path].pc
      [] call.kind = "runClass" -> classRun[call.ctor].pc
      [] call.kind = "runClassTest" ->
            IF call.lookupFailed THEN "rejected"
            ELSE testRun[call.ctor][FindTest(call.ctor, call.method)].pc
      [] OTHER -> "none"
\* runClass has produced the ClassResult of c (a class declared with skip
\* gets its result from runFile instead).
ClassRan(c) == classRun[c].pc = "returned" /\ classRun[c].instance # 0
Settled == {"passed", "failed", "broken", "skipped"}

\* C2: a class run by runClass in which a beforeAll, afterAll or per-test
\* each-hook fails while every test body passes has the result broken.
C2_HookFailureBreaksClass ==
    \A c \in Ctors :
        (/\ ClassRan(c)
         /\ testRun[c] # <<>>
         /\ \/ \E i \in DOMAIN hookRun[c] : hookRun[c][i].race = "failed"
            \/ \E t \in DOMAIN testRun[c] : \E j \in DOMAIN testRun[c][t].each :
                    testRun[c][t].each[j].race = "failed"
         /\ \A t \in DOMAIN testRun[c] : testRun[c][t].body.race = "passed")
        => classRun[c].result = "broken"

\* C4: over any sequence of runs of one ctor the class is constructed at most
\* once: one classConstructor event, one instance under every hook and test.
C4_ConstructedAtMostOnce ==
    \A c \in Ctors :
        /\ obs.constructed[c] <= 1
        /\ Cardinality(obs.thisUsed[c]) <= 1

\* C5: runnerInit is emitted exactly once for the runner, before any other
\* event of it.
C5_RunnerInitOnce ==
    /\ obs.first \in {"none", "runnerInit"}
    /\ obs.inits <= 1
    /\ call # NoCall => obs.inits = 1

\* C6: when the timer wins the race the result is failed, in _runFunction and
\* in the TestResult of runClassTest, and the function completing later
\* changes neither.
C6_TimedOut(before, after) ==
    before.race = "pending" /\ after.race # "pending" /\ after.fn = "running"
C6_Orphan(before, after) ==
    before.race # "pending" /\ before.fn = "running" /\ after.fn = "done"
C6_TimeoutFails ==
    [][callsLeft' = callsLeft =>
        \A c \in Ctors :
            /\ \A i \in DOMAIN hookRun[c] :
                /\ C6_TimedOut(hookRun[c][i], hookRun'[c][i]) => hookRun'[c][i].race = "failed"
                /\ C6_Orphan(hookRun[c][i], hookRun'[c][i])
                        => hookRun'[c][i].race = hookRun[c][i].race
            /\ \A t \in DOMAIN testRun[c] :
                /\ C6_TimedOut(testRun[c][t].body, testRun'[c][t].body)
                        => /\ testRun'[c][t].body.race = "failed"
                           /\ testRun'[c][t].res.result = "failed"
                /\ C6_Orphan(testRun[c][t].body, testRun'[c][t].body)
                        => /\ testRun'[c][t].body.race = testRun[c][t].body.race
                           /\ testRun'[c][t].res = testRun[c][t].res
                /\ \A j \in DOMAIN testRun[c][t].each :
                    C6_TimedOut(testRun[c][t].each[j], testRun'[c][t].each[j])
                        => testRun'[c][t].each[j].race = "failed"]_vars
\* runClassTest has returned a failed result while the test function is
\* still running.
C6_Witness ==
    \E c \in Ctors : \E t \in DOMAIN testRun[c] :
        /\ testRun[c][t].pc = "returned"
        /\ testRun[c][t].body.fn = "running"
        /\ testRun[c][t].res.result = "failed"

\* C7: a failing test or hook function never makes runClassTest, runClass,
\* runFile or run reject; only the lookup failure propagates.
C7_FailuresAreCaptured ==
    /\ runPc # "rejected"
    /\ \A p \in Paths : fileRun[p].pc # "rejected"
    /\ \A c \in Ctors :
        /\ classRun[c].pc # "rejected"
        /\ \A t \in DOMAIN testRun[c] : testRun[c][t].pc # "rejected"

\* C8: a result handed back has no pending state anywhere in it, and a class
\* that was run has one TestResult for every declared test.
C8_ResultOk(r) ==
    /\ r.result \in Settled
    /\ \A j \in DOMAIN r.hooks : r.hooks[j].result \in Settled
C8_ClassOk(c, result, results) ==
    /\ result \in Settled
    /\ \A i \in DOMAIN results : C8_ResultOk(results[i])
    /\ \A t \in DOMAIN classMeta[c].tests :
        Cardinality({i \in DOMAIN results :
            ~results[i].isHook /\ results[i].name = classMeta[c].tests[t].name}) = 1
C8_NothingPending ==
    /\ \A c \in Ctors :
        /\ ClassRan(c) => C8_ClassOk(c, classRun[c].result, classRun[c].results)
        /\ \A t \in DOMAIN testRun[c] :
            testRun[c][t].pc = "returned" => C8_ResultOk(testRun[c][t].res)
    /\ \A p \in Paths :
        fileRun[p].pc = "returned" =>
            /\ fileRun[p].result \in Settled
            /\ Len(fileRun[p].results) = Len(Exports(p))
            /\ \A k \in DOMAIN fileRun[p].results :
                LET r == fileRun[p].results[k]
                IN  /\ r.result \in Settled
                    /\ ~classMeta[r.ctor].skip => C8_ClassOk(r.ctor, r.result, r.results)
\* runFile has returned a FileResult holding the result of a class that ran
\* a hook and a test.
C8_Witness ==
    \E p \in Paths :
        /\ fileRun[p].pc = "returned"
        /\ \E k \in DOMAIN fileRun[p].results : Len(fileRun[p].results[k].results) >= 2

\* C9: a class declared with skip, executed through runFile or runClass,
\* gets the result skipped; no instance is constructed and none of its hook
\* or test functions is invoked.
C9_SkippedClassNotRun ==
    \A c \in Ctors :
        (classMeta[c].skip /\ call.kind \in {"run", "runFile", "runClass"}) =>
            /\ obs.constructed[c] = 0
            /\ obs.invoked[c] = 0
            /\ classRun[c].pc = "returned" => classRun[c].result = "skipped"

\* C10: runClassTest with a method name no declared test has rejects; it
\* invokes no function, emits neither classMethod nor classMethodResult and
\* returns no TestResult.
C10_LookupFailure ==
    (/\ call.kind = "runClassTest"
     /\ \A i \in DOMAIN classMeta[call.ctor].tests :
            classMeta[call.ctor].tests[i].name # call.method)
    => /\ CallStatus = "rejected"
       /\ \A c \in Ctors : obs.invoked[c] = 0
       /\ obs.emitted["classMethod"] = 0
       /\ obs.emitted["classMethodResult"] = 0
       /\ \A c \in Ctors : \A t \in DOMAIN testRun[c] : testRun[c][t].pc = "idle"
\* The rejected call on a class that declares tests, after it acquired the
\* instance.
C10_Witness ==
    /\ call.kind = "runClassTest"
    /\ call.lookupFailed
    /\ classMeta[call.ctor].tests # <<>>
    /\ obs.emitted["classConstructor"] = 1

\* C11: a test declared with skip comes back from runClassTest as skipped,
\* with one skipped entry in hooks for every declared beforeEach and
\* afterEach hook (the beforeEach entries first), and neither its function
\* nor any of its each-hooks was invoked.
C11_SkippedTest ==
    \A c \in Ctors : \A t \in DOMAIN testRun[c] :
        LET test == classMeta[c].tests[t]
            tr == testRun[c][t]
            be == EachOf(test, "beforeEach")
            ae == EachOf(test, "afterEach")
            declared == [j \in DOMAIN be |-> test.hooks[be[j]].name]
                        \o [j \in DOMAIN ae |-> test.hooks[ae[j]].name]
        IN  (test.skip /\ tr.pc # "idle") =>
                /\ tr.pc = "returned"
                /\ tr.res.result = "skipped"
                /\ Len(tr.res.hooks) = Len(declared)
                /\ \A j \in DOMAIN declared :
                    /\ tr.res.hooks[j].name = declared[j]
                    /\ tr.res.hooks[j].result = "skipped"
                /\ tr.body = NoInv
                /\ \A j \in DOMAIN tr.each : tr.each[j] = NoInv
                /\ call.kind = "runClassTest" => obs.invoked[c] = 0
\* runClassTest has returned for a skipped test that declares two each-hooks.
C11_Witness ==
    /\ call.kind = "runClassTest"
    /\ \E t \in DOMAIN testRun[call.ctor] :
        /\ classMeta[call.ctor].tests[t].skip
        /\ Len(classMeta[call.ctor].tests[t].hooks) = 2
        /\ testRun[call.ctor][t].pc = "returned"
        /\ Len(testRun[call.ctor][t].res.hooks) = 2

\* C12: a test whose race rejects with a native Error or with a string
\* gives a returned TestResult that is failed and carries an error: the
\* stack text for the Error, the string itself for the string.
C12_ErrorCaptured ==
    \A c \in Ctors : \A t \in DOMAIN testRun[c] :
        LET tr == testRun[c][t]
        IN  (tr.pc = "returned" /\ tr.settled \in {"Error", "string"}) =>
                /\ tr.res.result = "failed"
                /\ tr.settled = "Error" => tr.res.error = "stack"
                /\ tr.settled = "string" => tr.res.error = "string"

\* C13: in a runFile call the runFile event comes before the filtering;
\* with a class found, fileParsed comes after the filtering and before any
\* class runs, and fileResult once, with the verdict; with no class found
\* the call returns absent without rejecting and emits neither of the two.
C13_Count(pcs) == Cardinality({p \in Paths : fileRun[p].pc \in pcs})
C14_SkippedClassPlaceholders ==
    \A p \in Paths :
        fileRun[p].pc = "returned" =>
            \A k \in DOMAIN fileRun[p].results :
                LET r == fileRun[p].results[k]
                IN  classMeta[r.ctor].skip =>
                        /\ r.result = "skipped"
                        /\ Len(r.results) = Len(classMeta[r.ctor].tests)
                        /\ \A i \in DOMAIN r.results : r.results[i].result = "skipped"

\* The hooks of one kind that _runHooks invokes, and the phases of runClass.
C15_Hooks(c, kind) == Range(runnedHooks(c, kind))
C15_TestStarted(c) == \E t \in DOMAIN testRun[c] : testRun[c][t].pc # "idle"
C15_AfterAllStarted(c) == \E i \in C15_Hooks(c, "afterAll") : hookRun[c][i].race # "none"
\* C15, as stated: within one runClass, timeouts included, every beforeAll
\* function has completed before any test starts, and every test function
\* and each-hook function has completed before any afterAll function starts.
C15_FunctionsCompleteInPhases ==
    \A c \in Ctors :
        classRun[c].pc # "idle" =>
            /\ C15_TestStarted(c) =>
                \A i \in C15_Hooks(c, "beforeAll") : hookRun[c][i].fn = "done"
            /\ C15_AfterAllStarted(c) =>
                \A t \in DOMAIN testRun[c] :
                    /\ testRun[c][t].body.fn # "running"
                    /\ \A j \in DOMAIN testRun[c][t].each : testRun[c][t].each[j].fn # "running"
\* C15, amended: every beforeAll hook has its result before any test starts,
\* and every test has returned its result before any afterAll function
\* starts; a function that lost the race to the timer may still be running.
C15_ResultsInPhases ==
    \A c \in Ctors :
        classRun[c].pc # "idle" =>
            /\ C15_TestStarted(c) =>
                \A i \in C15_Hooks(c, "beforeAll") : hookRun[c][i].race \in {"passed", "failed"}
            /\ C15_AfterAllStarted(c) =>
                \A t \in DOMAIN testRun[c] :
                    /\ testRun[c][t].pc = "returned"
                    /\ testRun[c][t].res.result # "pending"
\* A test is running under runClass while a beforeAll function that timed
\* out has not completed.
C15_Witness ==
    \E c \in Ctors :
        /\ classRun[c].pc = "tests"
        /\ \E t \in DOMAIN testRun[c] : testRun[c][t].body.fn = "running"
        /\ \E i \in C15_Hooks(c, "beforeAll") :
            hookRun[c][i].race = "failed" /\ hookRun[c][i].fn = "running"

C17_KindOf(c, name) ==
    LET h == CHOOSE i \in DOMAIN classMeta[c].hooks : classMeta[c].hooks[i].name = name
    IN  classMeta[c].hooks[h].kind
C17_ClassOrdered(c, results) ==
    LET hooks == classMeta[c].hooks
        tests == classMeta[c].tests
        nb == Cardinality({i \in DOMAIN hooks : hooks[i].kind = "beforeAll"})
        na == Cardinality({i \in DOMAIN hooks : hooks[i].kind = "afterAll"})
    IN  /\ Len(results) = nb + Len(tests) + na
        /\ \A i \in DOMAIN results :
            IF i <= nb
            THEN results[i].isHook /\ C17_KindOf(c, results[i].name) = "beforeAll"
            ELSE IF i <= nb + Len(tests)
            THEN ~results[i].isHook /\ results[i].name = tests[i - nb].name
            ELSE results[i].isHook /\ C17_KindOf(c, results[i].name) = "afterAll"
C17_DeclarationOrder ==
    /\ \A c \in Ctors : ClassRan(c) => C17_ClassOrdered(c, classRun[c].results)
    /\ \A p \in Paths :
        fileRun[p].pc = "returned" =>
            /\ Len(fileRun[p].results) = Len(Exports(p))
            /\ \A k \in DOMAIN fileRun[p].results :
                /\ fileRun[p].results[k].ctor = Exports(p)[k]
                /\ ~classMeta[Exports(p)[k]].skip =>
                    C17_ClassOrdered(Exports(p)[k], fileRun[p].results[k].results)
\* A test, or a class, delivered its result before one declared ahead of
\* it, and the ClassResult of two tests, or the FileResult, was returned.
C17_Witness ==
    /\ obs.outOfOrder
    /\ \/ \E c \in Ctors : ClassRan(c) /\ Len(classMeta[c].tests) = 2
       \/ fileRun["f"].pc = "returned"

\* The hook invocations of the call in progress, by what became of them.
C18_ClassHooks(races) ==
    {<<c, i>> \in Ctors \X (1..MaxHooks) :
        i \in DOMAIN hookRun[c] /\ hookRun[c][i].race \in races}
C18_EachHooks(races) ==
    {<<c, t, j>> \in Ctors \X (1..MaxTests) \X (1..2) :
        /\ t \in DOMAIN testRun[c]
        /\ j \in DOMAIN testRun[c][t].each
        /\ testRun[c][t].each[j].race \in races}
C18_Invoked == {"pending", "threw", "passed", "failed"}
C18_EachHookEvents ==
    /\ obs.emitted["classHook"] = Cardinality(C18_ClassHooks(C18_Invoked))
    /\ obs.emitted["classEachHook"] = Cardinality(C18_EachHooks(C18_Invoked))
    /\ obs.emitted["classEachHookResult"] = Cardinality(C18_EachHooks({"passed", "failed"}))
    /\ \A c \in Ctors :
        /\ \A i \in DOMAIN hookRun[c] :
            classMeta[c].hooks[i].skip => hookRun[c][i] = NoInv
        /\ \A t \in DOMAIN testRun[c] : \A j \in DOMAIN testRun[c][t].each :
            classMeta[c].tests[t].hooks[j].skip => testRun[c][t].each[j] = NoInv
\* C18: every runnable beforeAll/afterAll hook is announced by classHook
\* before it is invoked and followed by classHookResult once it has its
\* result; every runnable each-hook by classEachHook and
\* classEachHookResult; a skipped hook is not invoked.
C18_HookEvents ==
    /\ C18_EachHookEvents
    /\ obs.emitted["classHookResult"] = Cardinality(C18_ClassHooks({"passed", "failed"}))

\* C19: a test that is not skipped and declares each-hooks comes back from
\* runClassTest with a hooks sequence holding the result of each runnable
\* beforeEach hook, then of each runnable afterEach hook.
C19_NestedHookResults ==
    \A c \in Ctors : \A t \in DOMAIN testRun[c] :
        LET test == classMeta[c].tests[t]
            tr == testRun[c][t]
            expected == EachResults(tr, test, "beforeEach") \o EachResults(tr, test, "afterEach")
        IN  (/\ ~test.skip /\ isHaveHooks(test)
             /\ tr.pc \in {"returned", "rejected"}
             /\ tr.body.race \in {"passed", "failed"}
             /\ EachSettled(tr, test, "beforeEach")
             /\ EachSettled(tr, test, "afterEach"))
            => /\ tr.pc = "returned"
               /\ tr.res.hooksDefined
               /\ tr.res.hooks = expected

\* C20: runClass never gives the verdict skipped; a class whose tests are
\* all skipped, or which declares none, gets passed, whatever its beforeAll
\* and afterAll hooks did.
C20_NeverSkipped ==
    (aggIn.kind = "class" /\ aggOut # "none") =>
        /\ aggOut # "skipped"
        /\ (\A i \in DOMAIN aggIn.tests : aggIn.tests[i].result = "skipped")
                => aggOut = "passed"
\* Every test skipped, a beforeAll hook failed, and the verdict is passed.
C20_Witness ==
    /\ aggIn.kind = "class" /\ aggOut = "passed"
    /\ aggIn.tests # <<>>
    /\ \A i \in DOMAIN aggIn.tests : aggIn.tests[i].result = "skipped"
    /\ \E i \in DOMAIN aggIn.before : aggIn.before[i].result = "failed"
\* The same over the runs: no ClassResult that runClass returned is skipped.
C20_RunNeverSkipped ==
    \A c \in Ctors : ClassRan(c) => classRun[c].result # "skipped"

====
